---- MODULE Spec2Model ----
(***************************************************************************)
(* The water-truck dashboard (src/dashboard.py): the two CSV loaders,      *)
(* load_keuangan_data and load_gps_data, and the script main that consumes *)
(* their results.                                                          *)
(*                                                                         *)
(* Text is a sequence of one-character strings, so that strip, lower,      *)
(* replace, number parsing and date parsing are computed character by      *)
(* character.  A number is a decimal mantissa with a count of fraction     *)
(* digits (Num(15, 1) is 1.5), kept normalised.                            *)
(***************************************************************************)
EXTENDS Integers, Sequences, FiniteSets, TLC

\* The largest number of data rows of an input file.
MaxRows == 2

-----------------------------------------------------------------------------
(* Characters and text                                                     *)

\* a sequence given as a function on 1..n, as the tuple of its values
Tup(f) == f \o <<>>

Upper == <<"A","B","C","D","E","F","G","H","I","J","K","L","M",
           "N","O","P","Q","R","S","T","U","V","W","X","Y","Z">>
Lower == <<"a","b","c","d","e","f","g","h","i","j","k","l","m",
           "n","o","p","q","r","s","t","u","v","w","x","y","z">>
DigitChars == <<"0","1","2","3","4","5","6","7","8","9">>

IsDigit(c) == \E i \in 1..10 : DigitChars[i] = c
DigitVal(c) == (CHOOSE i \in 1..10 : DigitChars[i] = c) - 1

\* str.lower() on one character
LowerChar(c) ==
  IF \E i \in 1..26 : Upper[i] = c
  THEN Lower[CHOOSE i \in 1..26 : Upper[i] = c]
  ELSE c

\* Series.str.lower()
StrLower(s) == Tup([i \in 1..Len(s) |-> LowerChar(s[i])])

\* Series.str.strip(): leading and trailing blanks removed
StrStrip(s) ==
  LET keep == {i \in 1..Len(s) : s[i] # " "}
  IN IF keep = {} THEN <<>>
     ELSE LET lo == CHOOSE i \in keep : \A j \in keep : i <= j
              hi == CHOOSE i \in keep : \A j \in keep : j <= i
          IN SubSeq(s, lo, hi)

StartsWith(s, pat) ==
  Len(pat) <= Len(s) /\ SubSeq(s, 1, Len(pat)) = pat

\* Series.str.replace(pat, rep): every occurrence, left to right, literal
RECURSIVE StrReplace(_, _, _)
StrReplace(s, pat, rep) ==
  IF s = <<>> THEN <<>>
  ELSE IF StartsWith(s, pat)
       THEN rep \o StrReplace(SubSeq(s, Len(pat) + 1, Len(s)), pat, rep)
       ELSE <<s[1]>> \o StrReplace(Tail(s), pat, rep)

AllDigits(s) == \A i \in 1..Len(s) : IsDigit(s[i])

RECURSIVE DigitsVal(_)
DigitsVal(s) ==
  IF s = <<>> THEN 0
  ELSE 10 * DigitsVal(SubSeq(s, 1, Len(s) - 1)) + DigitVal(s[Len(s)])

RECURSIVE Pow10(_)
Pow10(n) == IF n = 0 THEN 1 ELSE 10 * Pow10(n - 1)

\* the decimal digits of a natural number
RECURSIVE NatRepr(_)
NatRepr(n) ==
  IF n < 10 THEN <<DigitChars[n + 1]>>
  ELSE NatRepr(n \div 10) \o <<DigitChars[(n % 10) + 1]>>

\* n written with at least w digits, zero padded
RECURSIVE ZeroPad(_, _)
ZeroPad(s, w) == IF Len(s) >= w THEN s ELSE ZeroPad(<<"0">> \o s, w)

-----------------------------------------------------------------------------
(* Cell values of a data frame                                             *)

NaN == [k |-> "nan", s |-> <<>>, a |-> 0, b |-> 0, c |-> 0]
Str(s) == [k |-> "str", s |-> s, a |-> 0, b |-> 0, c |-> 0]
Date(d, m, y) == [k |-> "date", s |-> <<>>, a |-> d, b |-> m, c |-> y]

\* mantissa m with e fraction digits, trailing fraction zeros removed
RECURSIVE Num(_, _)
Num(m, e) ==
  IF e > 0 /\ m % 10 = 0 THEN Num(m \div 10, e - 1)
  ELSE [k |-> "num", s |-> <<>>, a |-> m, b |-> e, c |-> 0]

IsNa(v) == v.k = "nan"

\* a <= b for two numbers
NumLe(x, y) ==
  LET e == IF x.b >= y.b THEN x.b ELSE y.b
  IN x.a * Pow10(e - x.b) <= y.a * Pow10(e - y.b)

NumAdd(x, y) ==
  LET e == IF x.b >= y.b THEN x.b ELSE y.b
  IN Num(x.a * Pow10(e - x.b) + y.a * Pow10(e - y.b), e)

\* pd.to_numeric(..., errors='coerce') on one text: [sign] digits [. digits],
\* anything else is NaN
ToNumeric(s) ==
  LET neg  == s # <<>> /\ s[1] = "-"
      body == IF s # <<>> /\ s[1] \in {"-", "+"} THEN Tail(s) ELSE s
      dots == {i \in 1..Len(body) : body[i] = "."}
  IN IF body = <<>> THEN NaN
     ELSE IF dots = {}
          THEN IF AllDigits(body)
               THEN Num((IF neg THEN -1 ELSE 1) * DigitsVal(body), 0)
               ELSE NaN
          ELSE IF Cardinality(dots) = 1
               THEN LET p    == CHOOSE i \in dots : TRUE
                        ip   == SubSeq(body, 1, p - 1)
                        fp   == SubSeq(body, p + 1, Len(body))
                    IN IF AllDigits(ip) /\ AllDigits(fp) /\ Len(ip) + Len(fp) > 0
                       THEN Num((IF neg THEN -1 ELSE 1)
                                  * (DigitsVal(ip) * Pow10(Len(fp)) + DigitsVal(fp)),
                                Len(fp))
                       ELSE NaN
               ELSE NaN

\* str() of an int64
IntRepr(v) ==
  IF v.a < 0 THEN <<"-">> \o NatRepr(-v.a) ELSE NatRepr(v.a)

\* str() of a float64: always a decimal point, at least one fraction digit
FloatRepr(v) ==
  LET m    == IF v.a < 0 THEN -v.a ELSE v.a
      sign == IF v.a < 0 THEN <<"-">> ELSE <<>>
  IN IF v.b = 0 THEN sign \o NatRepr(m) \o <<".", "0">>
     ELSE sign \o NatRepr(m \div Pow10(v.b)) \o <<".">>
               \o ZeroPad(NatRepr(m % Pow10(v.b)), v.b)

-----------------------------------------------------------------------------
(* Names used by the program                                               *)

tanggal        == <<"t","a","n","g","g","a","l">>
pemasukan      == <<"p","e","m","a","s","u","k","a","n">>
pengeluaran    == <<"p","e","n","g","e","l","u","a","r","a","n">>
jumlahair      == <<"j","u","m","l","a","h","a","i","r">>
nopol          == <<"n","o","p","o","l">>
sopir          == <<"s","o","p","i","r">>
jenis_transaksi == <<"j","e","n","i","s"," ","t","r","a","n","s","a","k","s","i">>
plat_nomor     == <<"p","l","a","t"," ","n","o","m","o","r">>
volume_l       == <<"v","o","l","u","m","e"," ","(","l",")">>
jumlah_air     == <<"j","u","m","l","a","h"," ","a","i","r">>
Nama_Bulan     == <<"N","a","m","a","_","B","u","l","a","n">>
nama_lokasi    == <<"n","a","m","a"," ","l","o","k","a","s","i">>
lokasi         == <<"l","o","k","a","s","i">>
latitude       == <<"l","a","t","i","t","u","d","e">>
longitude      == <<"l","o","n","g","i","t","u","d","e">>
Tidak_Diketahui == <<"T","i","d","a","k"," ","D","i","k","e","t","a","h","u","i">>
Semua_Bulan    == <<"S","e","m","u","a"," ","B","u","l","a","n">>
Rp             == <<"R","p">>

-----------------------------------------------------------------------------
(* Data frames                                                             *)
(* A file is [exists, cols], each column [name, cells] with one text per   *)
(* data row.  A data frame is [isNone, index, cols]: index holds the       *)
(* positions of the surviving input rows, each column [name, dtype, data]. *)

NoneDF == [isNone |-> TRUE, index |-> <<>>, cols |-> <<>>]

\* cells pandas reads as missing (a part of read_csv's default na_values)
NaTexts == { <<>>, <<"N","A">>, <<"n","a","n">> }

IsIntText(s) ==
  LET body == IF s # <<>> /\ s[1] \in {"-", "+"} THEN Tail(s) ELSE s
  IN body # <<>> /\ AllDigits(body)

\* read_csv's dtype inference for one column
InferDtype(cells) ==
  IF Len(cells) = 0 THEN "object"
  ELSE IF \A i \in 1..Len(cells) : cells[i] \notin NaTexts /\ IsIntText(cells[i])
       THEN "int64"
  ELSE IF \A i \in 1..Len(cells) :
             cells[i] \in NaTexts \/ ~IsNa(ToNumeric(cells[i]))
       THEN "float64"
  ELSE "object"

ReadColumn(c) ==
  LET dt == InferDtype(c.cells)
  IN [name  |-> c.name,
      dtype |-> dt,
      data  |-> Tup([i \in 1..Len(c.cells) |->
                   IF c.cells[i] \in NaTexts THEN NaN
                   ELSE IF dt = "object" THEN Str(c.cells[i])
                   ELSE ToNumeric(c.cells[i])])]

NRowsOfFile(file) == IF Len(file.cols) = 0 THEN 0 ELSE Len(file.cols[1].cells)

\* pd.read_csv of a readable file
read_csv(file) ==
  [isNone |-> FALSE,
   index  |-> Tup([i \in 1..NRowsOfFile(file) |-> i]),
   cols   |-> Tup([j \in 1..Len(file.cols) |-> ReadColumn(file.cols[j])])]

ColNames(df) == Tup([j \in 1..Len(df.cols) |-> df.cols[j].name])
ColCount(df, name) == Cardinality({j \in 1..Len(df.cols) : df.cols[j].name = name})
HasCol(df, name) == \E j \in 1..Len(df.cols) : df.cols[j].name = name
ColPos(df, name) == CHOOSE j \in 1..Len(df.cols) : df.cols[j].name = name
GetCol(df, name) == df.cols[ColPos(df, name)]
NRows(df) == Len(df.index)

\* df[name] = data: the column is replaced in place, or appended when new
SetCol(df, name, dtype, data) ==
  LET col == [name |-> name, dtype |-> dtype, data |-> data]
  IN IF HasCol(df, name)
     THEN [df EXCEPT !.cols = Tup([j \in 1..Len(df.cols) |->
                                 IF j = ColPos(df, name) THEN col ELSE df.cols[j]])]
     ELSE [df EXCEPT !.cols = Append(df.cols, col)]

RECURSIVE Pick(_, _, _)
Pick(seq, keep, i) ==
  IF i > Len(seq) THEN <<>>
  ELSE (IF i \in keep THEN <<seq[i]>> ELSE <<>>) \o Pick(seq, keep, i + 1)

\* the rows at the positions keep, in order
SelectRows(df, keep) ==
  [isNone |-> FALSE,
   index  |-> Pick(df.index, keep, 1),
   cols   |-> Tup([j \in 1..Len(df.cols) |->
                 [df.cols[j] EXCEPT !.data = Pick(df.cols[j].data, keep, 1)]])]

\* df.columns.str.strip().str.lower()
NormalizeColumns(df) ==
  [df EXCEPT !.cols = Tup([j \in 1..Len(df.cols) |->
      [df.cols[j] EXCEPT !.name = StrLower(StrStrip(df.cols[j].name))]])]

\* Series.astype(str)
AsTypeStr(col) ==
  Tup([i \in 1..Len(col.data) |->
     LET v == col.data[i]
     IN IF IsNa(v) THEN Str(<<"n","a","n">>)
        ELSE IF col.dtype = "int64" THEN Str(IntRepr(v))
        ELSE IF col.dtype = "float64" THEN Str(FloatRepr(v))
        ELSE v])

-----------------------------------------------------------------------------
(* Dates                                                                   *)

MonthNames == <<"January", "February", "March", "April", "May", "June", "July",
                "August", "September", "October", "November", "December">>

IsLeap(y) == (y % 4 = 0 /\ y % 100 # 0) \/ y % 400 = 0

DaysInMonth(m, y) ==
  IF m = 2 THEN (IF IsLeap(y) THEN 29 ELSE 28)
  ELSE IF m \in {4, 6, 9, 11} THEN 30 ELSE 31

\* one text against format='%d/%m/%Y': day and month of one or two digits,
\* a year of four, a real calendar day; NaN stands for NaT
Strptime(s) ==
  LET sl == {i \in 1..Len(s) : s[i] = "/"}
  IN IF Cardinality(sl) # 2 THEN NaN
     ELSE LET p1 == CHOOSE i \in sl : \A j \in sl : i <= j
              p2 == CHOOSE i \in sl : \A j \in sl : j <= i
              dd == SubSeq(s, 1, p1 - 1)
              mm == SubSeq(s, p1 + 1, p2 - 1)
              yy == SubSeq(s, p2 + 1, Len(s))
          IN IF /\ Len(dd) \in {1, 2} /\ AllDigits(dd)
                /\ Len(mm) \in {1, 2} /\ AllDigits(mm)
                /\ Len(yy) = 4 /\ AllDigits(yy)
                /\ DigitsVal(mm) \in 1..12
                /\ DigitsVal(dd) >= 1
                /\ DigitsVal(dd) <= DaysInMonth(DigitsVal(mm), DigitsVal(yy))
                /\ (Len(dd) = 2 \/ dd # <<"0">>)
                /\ (Len(mm) = 2 \/ mm # <<"0">>)
             THEN Date(DigitsVal(dd), DigitsVal(mm), DigitsVal(yy))
             ELSE NaN

\* strftime('%Y-%m (%B)'); the month name is one element of the text
Strftime(d) ==
  ZeroPad(NatRepr(d.c), 4) \o <<"-">> \o ZeroPad(NatRepr(d.b), 2)
    \o <<" ", "(", MonthNames[d.b], ")">>

-----------------------------------------------------------------------------
(* Streamlit output: st.error, st.write, st.info, st.warning               *)

Msg(fn, text, cause, cols) ==
  [fn |-> fn, text |-> text, cause |-> cause, cols |-> cols]

Returned(df, out) == [ret |-> df, out |-> out, exc |-> "none"]

-----------------------------------------------------------------------------
(* load_keuangan_data                                                      *)

\* the rename table of the financial loader
column_mapping(name) ==
  IF name = plat_nomor THEN nopol
  ELSE IF name = volume_l THEN jumlahair
  ELSE IF name = jumlah_air THEN jumlahair
  ELSE name

RenameKeuangan(df) ==
  [df EXCEPT !.cols = Tup([j \in 1..Len(df.cols) |->
      [df.cols[j] EXCEPT !.name = column_mapping(df.cols[j].name)]])]

\* pd.to_datetime(df['tanggal'], format='%d/%m/%Y', errors='coerce')
ToDatetime(col) ==
  Tup([i \in 1..Len(col.data) |->
     IF col.data[i].k = "str" THEN Strptime(col.data[i].s) ELSE NaN])

\* dropna that drops nothing
DropNa_KeepAll(df, name) == df

\* df.dropna(subset=[name])
DropNa(df, name) ==
  SelectRows(df, {i \in 1..NRows(df) : ~IsNa(GetCol(df, name).data[i])})

\* the numeric clean-up without its fillna(0)
CleanNumeric_NoFillna(df, col) ==
  LET texts == AsTypeStr(GetCol(df, col))
  IN SetCol(df, col, "float64",
            Tup([i \in 1..Len(texts) |->
               ToNumeric(StrReplace(StrReplace(texts[i].s, Rp, <<>>), <<".">>, <<>>))]))

\* the body of the numeric loop for one column that is present once
CleanNumeric(df, col) ==
  LET texts == AsTypeStr(GetCol(df, col))
      clean == Tup([i \in 1..Len(texts) |->
                  StrReplace(StrReplace(texts[i].s, Rp, <<>>), <<".">>, <<>>)])
      nums  == Tup([i \in 1..Len(clean) |->
                  LET n == ToNumeric(clean[i])
                  IN IF IsNa(n) THEN Num(0, 0) ELSE n])
  IN SetCol(df, col, "float64", nums)

\* the body of the categorical loop for one column
CleanCategorical(df, col) ==
  [df EXCEPT !.cols = Tup([j \in 1..Len(df.cols) |->
      IF df.cols[j].name # col THEN df.cols[j]
      ELSE [df.cols[j] EXCEPT !.data = Tup([i \in 1..Len(df.cols[j].data) |->
              IF IsNa(df.cols[j].data[i]) THEN Str(Tidak_Diketahui)
              ELSE df.cols[j].data[i]])]])]

\* df['Nama_Bulan'] = df['tanggal'].dt.strftime('%Y-%m (%B)')
AddNamaBulan(df) ==
  LET d == GetCol(df, tanggal).data
  IN SetCol(df, Nama_Bulan, "object",
            Tup([i \in 1..Len(d) |-> IF IsNa(d[i]) THEN NaN ELSE Str(Strftime(d[i]))]))

NumericCols == <<pemasukan, pengeluaran, jumlahair>>
CategoricalCols == <<nopol, sopir, jenis_transaksi>>

RECURSIVE NumericLoop(_, _)
NumericLoop(df, k) ==
  IF k > Len(NumericCols) THEN df
  ELSE IF HasCol(df, NumericCols[k])
       THEN NumericLoop(CleanNumeric(df, NumericCols[k]), k + 1)
       ELSE NumericLoop(df, k + 1)

RECURSIVE CategoricalLoop(_, _)
CategoricalLoop(df, k) ==
  IF k > Len(CategoricalCols) THEN df
  ELSE IF HasCol(df, CategoricalCols[k])
       THEN CategoricalLoop(CleanCategorical(df, CategoricalCols[k]), k + 1)
       ELSE CategoricalLoop(df, k + 1)

\* the except clause of load_keuangan_data: df is unbound when read_csv raised,
\* and the st.write that reads it raises in turn
KeuanganHandler(cause, bound, df) ==
  LET err == Msg("error", "Gagal memuat keuangan_data.csv", cause, <<>>)
  IN IF bound
     THEN Returned(NoneDF, <<err, Msg("write", "Struktur data yang ditemukan:",
                                       "", ColNames(df))>>)
     ELSE [ret |-> NoneDF, out |-> <<err>>, exc |-> "UnboundLocalError"]

load_keuangan_data(file) ==
  IF ~file.exists THEN KeuanganHandler("FileNotFoundError", FALSE, NoneDF)
  ELSE
    LET df1 == RenameKeuangan(NormalizeColumns(read_csv(file)))
    IN IF ColCount(df1, tanggal) = 0 THEN KeuanganHandler("KeyError", TRUE, df1)
       ELSE IF ColCount(df1, tanggal) > 1 THEN KeuanganHandler("ValueError", TRUE, df1)
       ELSE
         LET df2 == SetCol(df1, tanggal, "datetime64", ToDatetime(GetCol(df1, tanggal)))
             df3 == DropNa(df2, tanggal)
         IN IF \E k \in 1..Len(NumericCols) : ColCount(df3, NumericCols[k]) > 1
            THEN KeuanganHandler("AttributeError", TRUE, df3)
            ELSE Returned(AddNamaBulan(CategoricalLoop(NumericLoop(df3, 1), 1)), <<>>)

-----------------------------------------------------------------------------
(* load_gps_data                                                           *)

RenameGps(df) ==
  [df EXCEPT !.cols = Tup([j \in 1..Len(df.cols) |->
      [df.cols[j] EXCEPT !.name =
         IF df.cols[j].name = nama_lokasi THEN lokasi ELSE df.cols[j].name]])]

\* the coordinate clean-up without the decimal comma replaced
CleanCoordinate_NoComma(df, col) ==
  LET texts == AsTypeStr(GetCol(df, col))
  IN SetCol(df, col, "float64", Tup([i \in 1..Len(texts) |-> ToNumeric(texts[i].s)]))

\* pd.to_numeric(df[col].astype(str).str.replace(',', '.'), errors='coerce')
CleanCoordinate(df, col) ==
  LET texts == AsTypeStr(GetCol(df, col))
  IN SetCol(df, col, "float64",
            Tup([i \in 1..Len(texts) |->
               ToNumeric(StrReplace(texts[i].s, <<",">>, <<".">>))]))

\* Series.between(lo, hi), both ends included
Between(v, lo, hi) == NumLe(Num(lo, 0), v) /\ NumLe(v, Num(hi, 0))

\* df[(latitude between -90, 90) & (longitude between -180, 180)]
RangeFilter(df) ==
  SelectRows(df, {i \in 1..NRows(df) :
     /\ Between(GetCol(df, latitude).data[i], -90, 90)
     /\ Between(GetCol(df, longitude).data[i], -180, 180)})

GpsHandler(cause) ==
  Returned(NoneDF, <<Msg("error", "Gagal memuat data_gps.csv", cause, <<>>)>>)

load_gps_data(file) ==
  IF ~file.exists THEN GpsHandler("FileNotFoundError")
  ELSE
    LET df1 == RenameGps(NormalizeColumns(read_csv(file)))
    IN IF ColCount(df1, latitude) = 0 \/ ColCount(df1, longitude) = 0
       THEN GpsHandler("KeyError")
       ELSE IF ColCount(df1, latitude) > 1 \/ ColCount(df1, longitude) > 1
       THEN GpsHandler("AttributeError")
       ELSE
         LET df2 == CleanCoordinate(CleanCoordinate(df1, latitude), longitude)
             df3 == DropNa(DropNa(df2, latitude), longitude)
             df4 == RangeFilter(df3)
         IN IF NRows(df4) = 0
            THEN Returned(NoneDF, <<Msg("error",
                    "Tidak ada data GPS valid yang dapat ditampilkan", "", <<>>)>>)
            ELSE Returned(df4, <<>>)

-----------------------------------------------------------------------------
(* Input files                                                             *)

Col(name, cells) == [name |-> name, cells |-> cells]
File(cols) == [exists |-> TRUE, cols |-> cols]
MissingFile == [exists |-> FALSE, cols |-> <<>>]
Fill(text, n) == Tup([i \in 1..n |-> text])

d_mar   == <<"1","5","/","0","3","/","2","0","2","4">>
d_apr   == <<"0","1","/","0","4","/","2","0","2","4">>
d_feb31 == <<"3","1","/","0","2","/","2","0","2","4">>
d_iso   == <<"2","0","2","4","-","0","3","-","1","5">>
d_short == <<"1","5","/","0","3","/","2","4">>
DateCells == {d_mar, d_apr, d_feb31, d_iso, d_short, <<>>}

n_rp    == <<"R","p","1",".","5","0","0">>
n_dot   == <<"1",".","5","0","0">>
n_int   == <<"2","5","0">>
n_neg   == <<"-","5">>
n_bad   == <<"x">>
NumCells == {n_rp, n_dot, n_int, n_neg, n_bad, <<>>}

p_b1    == <<"B","1">>
p_b2    == <<"B","2">>
s_adi   == <<"A","d","i">>
j_jual  == <<"J","u","a","l">>

h_Tanggal    == <<" ","T","a","n","g","g","a","l">>
h_Pemasukan  == <<"P","e","m","a","s","u","k","a","n">>
h_VolumeL    == <<"V","o","l","u","m","e"," ","(","L",")">>
h_JumlahAir  == <<"J","u","m","l","a","h"," ","A","i","r"," ">>
h_PlatNomor  == <<"P","l","a","t"," ","N","o","m","o","r">>
h_NOPOL      == <<" ","N","O","P","O","L"," ">>
h_Jenis      == <<"J","e","n","i","s"," ","T","r","a","n","s","a","k","s","i">>
h_NamaLokasi == <<"N","a","m","a"," ","L","o","k","a","s","i">>
h_Latitude   == <<" ","L","a","t","i","t","u","d","e">>
h_LONGITUDE  == <<"L","O","N","G","I","T","U","D","E">>

\* the columns of a well-formed financial file other than those given
MoneyCols(n) == <<Col(pemasukan, Fill(n_rp, n)), Col(pengeluaran, Fill(n_int, n)),
                  Col(jumlahair, Fill(n_rp, n))>>
PeopleCols(n) == <<Col(nopol, Fill(p_b1, n)), Col(sopir, Fill(s_adi, n)),
                   Col(jenis_transaksi, Fill(j_jual, n))>>

\* files that differ in their date cells
DateFiles ==
  UNION { { File(<<Col(tanggal, dc)>> \o MoneyCols(n) \o PeopleCols(n)) :
              dc \in [1..n -> DateCells] } : n \in 0..MaxRows }

\* files that differ in the cells of one money column, the first row with a
\* good or a bad date
NumFiles ==
  UNION { { File(<<Col(tanggal, <<d1>> \o Fill(d_mar, n - 1)), Col(pemasukan, nc),
                   Col(pengeluaran, Fill(n_int, n)), Col(jumlahair, Fill(n_rp, n))>>
                 \o PeopleCols(n)) :
              d1 \in {d_mar, d_iso}, nc \in [1..n -> NumCells] } :
          n \in 1..MaxRows }

\* files that differ in their categorical cells
CatFiles ==
  UNION { { File(<<Col(tanggal, Fill(d_mar, n))>> \o MoneyCols(n)
                 \o <<Col(nopol, pc_), Col(sopir, sc),
                      Col(jenis_transaksi, Fill(j_jual, n))>>) :
              pc_ \in [1..n -> {p_b1, p_b2, <<>>}],
              sc \in [1..n -> {s_adi, <<"N","A">>}] } :
          n \in 1..MaxRows }

WaterHeaders == { <<>>, <<jumlahair>>, <<h_VolumeL>>, <<h_JumlahAir>>,
                  <<h_VolumeL, h_JumlahAir>>, <<jumlahair, h_VolumeL>>,
                  <<jumlahair, h_JumlahAir>> }

\* files that differ in the columns they have and in how the headers are written
HeaderFiles ==
  { File([j \in 1..Len(dh) |-> Col(dh[j], <<d_mar>>)]
         \o [j \in 1..Len(ph) |-> Col(ph[j], <<n_rp>>)]
         \o [j \in 1..Len(eh) |-> Col(eh[j], <<n_int>>)]
         \o [j \in 1..Len(wh) |-> Col(wh[j], <<wc>>)]
         \o [j \in 1..Len(nh) |-> Col(nh[j], <<p_b1>>)]
         \o [j \in 1..Len(sh) |-> Col(sh[j], <<s_adi>>)]
         \o [j \in 1..Len(jh) |-> Col(jh[j], <<j_jual>>)]) :
      dh \in {<<>>, <<tanggal>>, <<h_Tanggal>>},
      ph \in {<<>>, <<h_Pemasukan>>},
      eh \in {<<>>, <<pengeluaran>>},
      wh \in WaterHeaders,
      wc \in {n_rp, n_dot},
      nh \in {<<>>, <<nopol>>, <<h_PlatNomor>>, <<h_NOPOL>>},
      sh \in {<<>>, <<sopir>>},
      jh \in {<<>>, <<h_Jenis>>} }

KeuFiles == {MissingFile} \cup DateFiles \cup NumFiles \cup CatFiles \cup HeaderFiles

\* one well-formed financial file, two months
KeuFew ==
  { File(<<Col(tanggal, <<d_mar, d_apr>>)>> \o MoneyCols(2) \o PeopleCols(2)) }

c_1234   == <<"1",",","2","3","4">>
c_95     == <<"9","5">>
c_m90    == <<"-","9","0">>
c_905    == <<"9","0",".","5">>
c_103456 == <<"1","0","3",",","4","5","6">>
c_110    == <<"1","1","0">>
c_181    == <<"1","8","1">>
l_depot  == <<"D","e","p","o","t">>
\* a latitude text and a longitude text
CoordPairs ==
  { <<c_1234, c_103456>>, <<c_95, c_110>>, <<c_m90, c_110>>, <<c_905, c_110>>,
    <<n_bad, c_110>>, <<c_1234, c_181>>, <<c_1234, <<>> >>, <<c_m90, c_103456>> }

\* GPS files that differ in their coordinates
CoordFiles ==
  UNION { { File(<<Col(lokasi, Fill(l_depot, n)),
                   Col(latitude, Tup([i \in 1..n |-> rows[i][1]])),
                   Col(longitude, Tup([i \in 1..n |-> rows[i][2]]))>>) :
              rows \in [1..n -> CoordPairs] } :
          n \in 0..MaxRows }

\* GPS files that differ in their headers
GpsHeaderFiles ==
  { File([j \in 1..Len(kh) |-> Col(kh[j], <<l_depot>>)]
         \o [j \in 1..Len(ah) |-> Col(ah[j], <<c_1234>>)]
         \o [j \in 1..Len(oh) |-> Col(oh[j], <<c_103456>>)]) :
      kh \in {<<>>, <<lokasi>>, <<h_NamaLokasi>>},
      ah \in {<<>>, <<latitude>>, <<h_Latitude>>},
      oh \in {<<>>, <<longitude>>, <<h_LONGITUDE>>} }

GpsFiles == {MissingFile} \cup CoordFiles \cup GpsHeaderFiles

\* one well-formed GPS file
GoodGps ==
  File(<<Col(lokasi, <<l_depot>>), Col(latitude, <<c_1234>>),
         Col(longitude, <<c_103456>>)>>)

-----------------------------------------------------------------------------
(* main                                                                    *)

VARIABLES keuFile, gpsFile, pc, df_keuangan, df_gps, out, raised,
          bulan_list, selected_month, filtered_df, totals, keuangan_bulanan,
          rendered

vars == <<keuFile, gpsFile, pc, df_keuangan, df_gps, out, raised,
          bulan_list, selected_month, filtered_df, totals, keuangan_bulanan,
          rendered>>

Zero == Num(0, 0)
NoTotals == [pemasukan |-> Zero, pengeluaran |-> Zero, air |-> Zero, armada |-> 0]

\* the code point of a character of a month key (a month name counts as a letter)
Ord(c) ==
  IF IsDigit(c) THEN 48 + DigitVal(c)
  ELSE IF c = " " THEN 32
  ELSE IF c = "(" THEN 40
  ELSE IF c = ")" THEN 41
  ELSE IF c = "-" THEN 45
  ELSE 65

\* Python's str <
RECURSIVE StrLess(_, _)
StrLess(x, y) ==
  IF y = <<>> THEN FALSE
  ELSE IF x = <<>> THEN TRUE
  ELSE IF x[1] = y[1] THEN StrLess(Tail(x), Tail(y))
  ELSE Ord(x[1]) < Ord(y[1])

\* sorted(set of texts)
RECURSIVE Sorted(_)
Sorted(S) ==
  IF S = {} THEN <<>>
  ELSE LET m == CHOOSE x \in S : \A y \in S \ {x} : StrLess(x, y)
       IN <<m>> \o Sorted(S \ {m})

ColValues(df, name) == {GetCol(df, name).data[i].s : i \in 1..NRows(df)}

\* Series.sum()
RECURSIVE SumFrom(_, _)
SumFrom(data, i) ==
  IF i > Len(data) THEN Zero ELSE NumAdd(data[i], SumFrom(data, i + 1))

Sum(df, name) == SumFrom(GetCol(df, name).data, 1)

\* the month filter with the comparison turned round
WhereEq_Negated(df, name, text) ==
  SelectRows(df, {i \in 1..NRows(df) : GetCol(df, name).data[i] # Str(text)})

\* df[df[name] == text]
WhereEq(df, name, text) ==
  SelectRows(df, {i \in 1..NRows(df) : GetCol(df, name).data[i] = Str(text)})

\* df[df[name] != text]
WhereNe(df, name, text) ==
  SelectRows(df, {i \in 1..NRows(df) : GetCol(df, name).data[i] # Str(text)})

Init ==
  /\ \/ keuFile \in KeuFiles /\ gpsFile = GoodGps
     \/ keuFile \in KeuFew /\ gpsFile \in GpsFiles
  /\ pc = "L112"
  /\ df_keuangan = NoneDF
  /\ df_gps = NoneDF
  /\ out = <<>>
  /\ raised = "none"
  /\ bulan_list = <<>>
  /\ selected_month = <<>>
  /\ filtered_df = NoneDF
  /\ totals = NoTotals
  /\ keuangan_bulanan = <<>>
  /\ rendered = {}

\* line 112: df_keuangan = load_keuangan_data()
CallLoadKeuangan ==
  /\ pc = "L112"
  /\ LET r == load_keuangan_data(keuFile)
     IN /\ out' = out \o r.out
        /\ raised' = r.exc
        /\ df_keuangan' = r.ret
        /\ pc' = IF r.exc = "none" THEN "L113" ELSE "raised"
  /\ UNCHANGED <<keuFile, gpsFile, df_gps, bulan_list, selected_month,
                 filtered_df, totals, keuangan_bulanan, rendered>>

\* line 113: df_gps = load_gps_data()
CallLoadGps ==
  /\ pc = "L113"
  /\ LET r == load_gps_data(gpsFile)
     IN /\ out' = out \o r.out
        /\ raised' = r.exc
        /\ df_gps' = r.ret
        /\ pc' = IF r.exc = "none" THEN "L115" ELSE "raised"
  /\ UNCHANGED <<keuFile, gpsFile, df_keuangan, bulan_list, selected_month,
                 filtered_df, totals, keuangan_bulanan, rendered>>

\* lines 115-116: if df_keuangan is None or df_gps is None: st.stop()
StopIfNone ==
  /\ pc = "L115"
  /\ pc' = IF df_keuangan.isNone \/ df_gps.isNone THEN "stopped" ELSE "L118"
  /\ UNCHANGED <<keuFile, gpsFile, df_keuangan, df_gps, out, raised, bulan_list,
                 selected_month, filtered_df, totals, keuangan_bulanan, rendered>>

\* lines 118-121: the month selector and the user's choice
SelectMonth ==
  /\ pc = "L118"
  /\ bulan_list' = <<Semua_Bulan>> \o Sorted(ColValues(df_keuangan, Nama_Bulan))
  /\ \E k \in 1..Len(bulan_list') : selected_month' = bulan_list'[k]
  /\ pc' = "L123"
  /\ UNCHANGED <<keuFile, gpsFile, df_keuangan, df_gps, out, raised,
                 filtered_df, totals, keuangan_bulanan, rendered>>

\* lines 123-127: the filtered table and the sidebar count
FilterMonth ==
  /\ pc = "L123"
  /\ filtered_df' = IF selected_month = Semua_Bulan THEN df_keuangan
                    ELSE WhereEq(df_keuangan, Nama_Bulan, selected_month)
  /\ out' = Append(out, [Msg("info", "Menampilkan", "", <<>>) EXCEPT
                           !.cols = <<NatRepr(NRows(filtered_df')),
                                      NatRepr(NRows(df_keuangan))>>])
  /\ pc' = "L129"
  /\ UNCHANGED <<keuFile, gpsFile, df_keuangan, df_gps, raised, bulan_list,
                 selected_month, totals, keuangan_bulanan, rendered>>

\* lines 129-139: the four metrics; a missing column is a KeyError
Metrics ==
  /\ pc = "L129"
  /\ IF \A name \in {pemasukan, pengeluaran, jumlahair, nopol} :
          HasCol(filtered_df, name)
     THEN /\ totals' =
               [pemasukan   |-> Sum(filtered_df, pemasukan),
                pengeluaran |-> Sum(filtered_df, pengeluaran),
                air         |-> Sum(filtered_df, jumlahair),
                armada      |-> Cardinality(ColValues(
                                  WhereNe(filtered_df, nopol, Tidak_Diketahui), nopol))]
          /\ rendered' = rendered \cup {"metrics"}
          /\ pc' = "L143"
          /\ raised' = raised
     ELSE /\ raised' = "KeyError"
          /\ pc' = "raised"
          /\ UNCHANGED <<totals, rendered>>
  /\ UNCHANGED <<keuFile, gpsFile, df_keuangan, df_gps, out, bulan_list,
                 selected_month, filtered_df, keuangan_bulanan>>

\* lines 143-155: the sums per month behind the two financial charts
Recap ==
  /\ pc = "L143"
  /\ keuangan_bulanan' =
       LET months == Sorted(ColValues(df_keuangan, Nama_Bulan))
       IN Tup([k \in 1..Len(months) |->
             LET g == WhereEq(df_keuangan, Nama_Bulan, months[k])
             IN [bulan |-> months[k],
                 pemasukan |-> Sum(g, pemasukan),
                 pengeluaran |-> Sum(g, pengeluaran),
                 jumlahair |-> Sum(g, jumlahair)]])
  /\ rendered' = rendered \cup {"fig1", "fig2"}
  /\ pc' = "L159"
  /\ UNCHANGED <<keuFile, gpsFile, df_keuangan, df_gps, out, raised, bulan_list,
                 selected_month, filtered_df, totals>>

\* lines 159-187: the map, or a warning when there is nothing to show
Map ==
  /\ pc = "L159"
  /\ IF ~df_gps.isNone /\ NRows(df_gps) > 0
     THEN IF HasCol(df_gps, lokasi)
          THEN /\ rendered' = rendered \cup {"fig_map"}
               /\ out' = Append(out, Msg("info", "Peta menunjukkan lokasi", "", <<>>))
               /\ pc' = "L191"
               /\ raised' = raised
          ELSE /\ out' = Append(out, Msg("info", "Peta menunjukkan lokasi", "", <<>>))
               /\ raised' = "KeyError"
               /\ pc' = "raised"
               /\ rendered' = rendered
     ELSE /\ out' = Append(out, Msg("warning",
                      "Tidak ada data GPS yang dapat ditampilkan", "", <<>>))
          /\ pc' = "L191"
          /\ UNCHANGED <<raised, rendered>>
  /\ UNCHANGED <<keuFile, gpsFile, df_keuangan, df_gps, bulan_list,
                 selected_month, filtered_df, totals, keuangan_bulanan>>

\* lines 191-204: the fleet and driver charts, each drawn when it has rows
Kinerja ==
  /\ pc = "L191"
  /\ LET armada == WhereNe(df_keuangan, nopol, Tidak_Diketahui)
         fig4   == IF NRows(armada) > 0 THEN {"fig4"} ELSE {}
     IN IF HasCol(filtered_df, sopir)
        THEN /\ rendered' = rendered \cup fig4 \cup
                  (IF NRows(WhereNe(filtered_df, sopir, Tidak_Diketahui)) > 0
                   THEN {"fig5"} ELSE {})
             /\ pc' = "done"
             /\ raised' = raised
        ELSE /\ rendered' = rendered \cup fig4
             /\ raised' = "KeyError"
             /\ pc' = "raised"
  /\ UNCHANGED <<keuFile, gpsFile, df_keuangan, df_gps, out, bulan_list,
                 selected_month, filtered_df, totals, keuangan_bulanan>>

Next ==
  \/ CallLoadKeuangan
  \/ CallLoadGps
  \/ StopIfNone
  \/ SelectMonth
  \/ FilterMonth
  \/ Metrics
  \/ Recap
  \/ Map
  \/ Kinerja

Spec == Init /\ [][Next]_vars

-----------------------------------------------------------------------------
(* What the claims speak of                                                *)

\* the field a header of the financial file stands for
FieldOf(header) == column_mapping(StrLower(StrStrip(header)))

\* the input columns that stand for a field
FileCols(file, name) == {j \in 1..Len(file.cols) : FieldOf(file.cols[j].name) = name}

\* the text of input row r in the (one) column that stands for a field
InputCell(file, name, r) ==
  file.cols[CHOOSE j \in FileCols(file, name) : TRUE].cells[r]

\* load_keuangan_data has returned a table to main
KeuTable == pc = "L113" /\ ~df_keuangan.isNone

\* load_gps_data has returned a table to main
GpsTable == pc = "L115" /\ ~df_gps.isNone

IndexSet(df) == {df.index[i] : i \in 1..NRows(df)}

\* the years of the dates the date claim is checked on
Years == 2023..2025

Pad2(n) == ZeroPad(NatRepr(n), 2)

\* every text that is a calendar day written day/month/year
DMYTexts ==
  UNION { UNION { { dt \o <<"/">> \o mt \o <<"/">> \o NatRepr(y) :
                      dt \in {NatRepr(d), Pad2(d)}, mt \in {NatRepr(m), Pad2(m)} } :
                  d \in 1..DaysInMonth(m, y) } :
          m \in 1..12, y \in Years }

\* the month key of a date, written out
MonthKey(v) ==
  NatRepr(v.c) \o <<"-">> \o Pad2(v.b) \o <<" ", "(", MonthNames[v.b], ")">>

\* the ways a date value is written day/month/year
DateTexts(v) ==
  { dt \o <<"/">> \o mt \o <<"/">> \o NatRepr(v.c) :
      dt \in {NatRepr(v.a), Pad2(v.a)}, mt \in {NatRepr(v.b), Pad2(v.b)} }

\* the GPS input column that stands for a coordinate
GpsCell(file, name, r) ==
  file.cols[CHOOSE j \in 1..Len(file.cols) :
              StrLower(StrStrip(file.cols[j].name)) = name].cells[r]

\* a coordinate text read with a decimal comma or a decimal point
Coord(cell) == ToNumeric(StrReplace(cell, <<",">>, <<".">>))

\* a number v with -lim <= v <= lim
Within(v, lim) ==
  v.k = "num" /\ -lim * Pow10(v.b) <= v.a /\ v.a <= lim * Pow10(v.b)

\* a money or quantity text without the currency marker and the thousands dots,
\* as a number, 0 when it is none
Amount(cell) ==
  LET n == ToNumeric(StrReplace(StrReplace(cell, Rp, <<>>), <<".">>, <<>>))
  IN IF IsNa(n) THEN Zero ELSE n

\* the position in df of the row that came from input row r
PosOf(df, r) == CHOOSE i \in 1..NRows(df) : df.index[i] = r

-----------------------------------------------------------------------------
(* Claims                                                                  *)

\* C1: when the GPS file is read but every row is filtered out, the loader hands
\* main something other than the None of a load failure, and main does not stop.
C1_EmptyGeoIsRecoverable ==
  ( /\ pc \notin {"L112", "L113"}
    /\ ~df_keuangan.isNone
    /\ \E i \in 1..Len(out) :
         out[i].text = "Tidak ada data GPS valid yang dapat ditampilkan" )
  => (~df_gps.isNone /\ pc # "stopped")

\* C2: a missing financial file ends load_keuangan_data with an error message
\* that names the file and the cause and with None returned; no exception leaves
\* the loader, and main stops before any aggregation.
C2_MissingFileIsLoadFailure ==
  (~keuFile.exists /\ pc # "L112")
  => /\ raised = "none"
     /\ df_keuangan.isNone
     /\ \E i \in 1..Len(out) :
          /\ out[i].fn = "error"
          /\ out[i].text = "Gagal memuat keuangan_data.csv"
          /\ out[i].cause = "FileNotFoundError"
     /\ pc \in {"L113", "L115", "stopped"}

C4_CategoricalPresent ==
  KeuTable =>
    \A k \in 1..Len(CategoricalCols) :
      /\ HasCol(df_keuangan, CategoricalCols[k])
      /\ \A i \in 1..NRows(df_keuangan) :
           LET v == GetCol(df_keuangan, CategoricalCols[k]).data[i]
           IN v.k = "str" /\ v.s # <<>>

\* C5: every returned table has the columns pemasukan, pengeluaran and
\* jumlahair, so the sums of main never meet a missing column.
C5_NumericColumnsPresent ==
  /\ KeuTable => \A k \in 1..Len(NumericCols) : HasCol(df_keuangan, NumericCols[k])
  /\ ~(pc = "raised" /\ raised = "KeyError" /\ "metrics" \notin rendered)

\* C6: the rows of a returned table are exactly the input rows whose date cell
\* is a calendar day written day/month/year; each has that day as its date and
\* the year-month (month name) of it as its Nama_Bulan.
C6_DateRowsAndMonthKey ==
  KeuTable =>
    /\ IndexSet(df_keuangan) =
         {r \in 1..NRowsOfFile(keuFile) : InputCell(keuFile, tanggal, r) \in DMYTexts}
    /\ Cardinality(IndexSet(df_keuangan)) = NRows(df_keuangan)
    /\ \A i \in 1..NRows(df_keuangan) :
         LET t == GetCol(df_keuangan, tanggal).data[i]
         IN /\ t.k = "date"
            /\ InputCell(keuFile, tanggal, df_keuangan.index[i]) \in DateTexts(t)
            /\ GetCol(df_keuangan, Nama_Bulan).data[i] = Str(MonthKey(t))

C6_Witness ==
  /\ KeuTable
  /\ \E r \in 1..NRowsOfFile(keuFile) :
       InputCell(keuFile, tanggal, r) = d_iso /\ r \notin IndexSet(df_keuangan)
  /\ \E i \in 1..NRows(df_keuangan) :
       /\ GetCol(df_keuangan, tanggal).data[i] = Date(15, 3, 2024)
       /\ GetCol(df_keuangan, Nama_Bulan).data[i] =
            Str(<<"2","0","2","4","-","0","3"," ","(","March",")">>)

\* C7: the rows of a returned GPS table are exactly the input rows whose two
\* coordinates, read with decimal comma or point, are numbers with latitude in
\* [-90, 90] and longitude in [-180, 180]; each carries the numbers read.
C7_GpsRowsRetained ==
  GpsTable =>
    /\ IndexSet(df_gps) =
         {r \in 1..NRowsOfFile(gpsFile) :
            /\ Within(Coord(GpsCell(gpsFile, latitude, r)), 90)
            /\ Within(Coord(GpsCell(gpsFile, longitude, r)), 180)}
    /\ Cardinality(IndexSet(df_gps)) = NRows(df_gps)
    /\ \A i \in 1..NRows(df_gps) :
         /\ GetCol(df_gps, latitude).data[i] =
              Coord(GpsCell(gpsFile, latitude, df_gps.index[i]))
         /\ GetCol(df_gps, longitude).data[i] =
              Coord(GpsCell(gpsFile, longitude, df_gps.index[i]))

C7_Witness ==
  /\ GpsTable
  /\ \E i \in 1..NRows(df_gps) :
       /\ GpsCell(gpsFile, latitude, df_gps.index[i]) = c_1234
       /\ GetCol(df_gps, latitude).data[i] = Num(1234, 3)
       /\ GetCol(df_gps, longitude).data[i] = Num(103456, 3)
  /\ \E r \in 1..NRowsOfFile(gpsFile) :
       /\ GpsCell(gpsFile, latitude, r) = c_95
       /\ GpsCell(gpsFile, longitude, r) = c_110
       /\ r \notin IndexSet(df_gps)

\* C8: each money or quantity value of a returned table is the number left when
\* 'Rp' and the dots are taken out of the input cell, 0 when that is no number,
\* and the table has one row for each input row with a well-formed date.
C8_AmountsAsWritten ==
  KeuTable =>
    /\ NRows(df_keuangan) =
         Cardinality({r \in 1..NRowsOfFile(keuFile) :
                        InputCell(keuFile, tanggal, r) \in DMYTexts})
    /\ \A k \in 1..Len(NumericCols) :
         HasCol(df_keuangan, NumericCols[k]) =>
           \A i \in 1..NRows(df_keuangan) :
             GetCol(df_keuangan, NumericCols[k]).data[i] =
               Amount(InputCell(keuFile, NumericCols[k], df_keuangan.index[i]))

\* the file with column j under the canonical header of its field and the other
\* columns of that field left out
AsCanonical(file, field, j) ==
  [file EXCEPT !.cols =
     Pick(Tup([c \in 1..Len(file.cols) |->
             IF c = j THEN Col(field, file.cols[c].cells) ELSE file.cols[c]]),
          (1..Len(file.cols)) \ (FileCols(file, field) \ {j}), 1)]

\* C9: whichever headers of a file stand for nopol or jumlahair, alone or
\* together, the load returns a table with that one field, cleaned as if the
\* column had carried the canonical header.
C9_VariantHeadersLoad ==
  \A field \in {nopol, jumlahair} :
    ( /\ pc = "L113"
      /\ keuFile.exists
      /\ Cardinality(FileCols(keuFile, tanggal)) = 1
      /\ FileCols(keuFile, field) # {} )
    => /\ ~df_keuangan.isNone
       /\ ColCount(df_keuangan, field) = 1
       /\ \E j \in FileCols(keuFile, field) :
            GetCol(df_keuangan, field) =
              GetCol(load_keuangan_data(AsCanonical(keuFile, field, j)).ret, field)

\* C10: whatever month is chosen in the selector, the filtered table holds
\* exactly the rows of the loaded table with that Nama_Bulan (all rows for
\* 'Semua Bulan'), so no more rows than the loaded table, at least one for a
\* month, and the loaded table is as load_keuangan_data returned it.
C10_FilterExact ==
  (pc = "L129") =>
    /\ \E k \in 1..Len(bulan_list) : bulan_list[k] = selected_month
    /\ {bulan_list[k] : k \in 1..Len(bulan_list)} =
         {Semua_Bulan} \cup ColValues(df_keuangan, Nama_Bulan)
    /\ IndexSet(filtered_df) =
         {df_keuangan.index[i] : i \in
            {i \in 1..NRows(df_keuangan) :
               \/ selected_month = Semua_Bulan
               \/ GetCol(df_keuangan, Nama_Bulan).data[i].s = selected_month}}
    /\ Cardinality(IndexSet(filtered_df)) = NRows(filtered_df)
    /\ ColNames(filtered_df) = ColNames(df_keuangan)
    /\ \A j \in 1..NRows(filtered_df) : \A c \in 1..Len(df_keuangan.cols) :
         filtered_df.cols[c].data[j] =
           df_keuangan.cols[c].data[PosOf(df_keuangan, filtered_df.index[j])]
    /\ NRows(filtered_df) <= NRows(df_keuangan)
    /\ selected_month # Semua_Bulan => NRows(filtered_df) >= 1
    /\ df_keuangan = load_keuangan_data(keuFile).ret

C10_Witness ==
  /\ pc = "L129"
  /\ selected_month # Semua_Bulan
  /\ NRows(filtered_df) >= 1
  /\ NRows(filtered_df) < NRows(df_keuangan)

====
